---- MODULE Spec2Model ----
(***************************************************************************)
(* Payment orchestration of app-nutris: payment creation, the four gateway *)
(* webhook receivers, the status poll and the provisioning handler, as     *)
(* independent request handlers that interleave at their I/O boundaries    *)
(* (every await on the database or on a gateway is one step).              *)
(***************************************************************************)
EXTENDS Integers, Sequences, FiniteSets, TLC

\* ------------------------------------------------------------------ bounds
MaxProcs == 2      \* handler invocations in flight at once
MaxRequests == 3   \* requests (creations, webhook deliveries, polls) handled in a run
MaxTime == 2       \* days the clock runs over
MaxPayments == 1   \* payments followed
MaxEmails == 1     \* customers followed
PlanDays == 1      \* duration_days of the plan
PlanPrice == 1     \* price_cents of the plan
CardLen == 6       \* digits of a card number
MaxDigit == 2      \* digits 1..MaxDigit in card numbers, CVVs and expiry months
MaxInstallments == 1

Procs == 1..MaxProcs
PayIds == 1..MaxPayments
Emails == 1..MaxEmails

\* ------------------------------------------------------------- vocabulary
Gateways == {"mercado_pago", "asaas", "pagseguro", "pagarme"}
Methods == {"pix", "boleto", "credit_card"}
Status == {"pending", "approved", "rejected", "expired", "refunded"}

VARIABLES
  payments,   \* table payments: PayIds -> row (gateway_payment_id = the PayId)
  profiles,   \* table profiles: Emails -> row (the profile id is the e-mail's index)
  settings,   \* table payment_settings (one owner)
  plan,       \* table subscription_plans (one plan)
  gw,         \* the gateway's side: PayIds -> the charge and the statuses it has notified
  now,        \* the clock (days; also the timestamp written to paid_at)
  proc,       \* Procs -> the handler invocation running in that slot
  requests,   \* handler invocations started so far
  provCount,  \* history: PayIds -> invocations of handlePaymentApproved
  wasApproved,\* history: PayIds -> the stored status has been approved at some time
  emails,     \* history: welcome notifications dispatched
  created,    \* history: Emails -> authentication identities created for the e-mail
  last,       \* history: summary of the handler invocation that completed last
  pair        \* history: two back-to-back deliveries of one webhook event

vars == <<payments, profiles, settings, plan, gw, now, proc, requests,
          provCount, wasApproved, emails, created, last, pair>>

\* ------------------------------------------------------------------- rows
NoRow == [exists |-> FALSE, gateway |-> "none", method |-> "none", status |-> "none",
          paid_at |-> 0, client_id |-> 0, email |-> 0, ver |-> 0, amount_cents |-> 0,
          duration0 |-> 0, card_last_digits |-> <<>>, card_brand |-> "",
          installments |-> 0]

\* The request body's card (CardData); absent for pix and boleto.
NoCard == [number |-> <<>>, cvv |-> 0, exp_month |-> 0, installments |-> 0]

Cards == [number : [1..CardLen -> 1..MaxDigit], cvv : 1..MaxDigit,
          exp_month : 1..MaxDigit, installments : 0..MaxInstallments]

DefaultCard == [number |-> [k \in 1..CardLen |-> 1], cvv |-> 1, exp_month |-> 1,
                installments |-> 1]

NoPlan == [exists |-> FALSE, is_active |-> FALSE, duration_days |-> 0, price_cents |-> 0]

NoProfile == [exists |-> FALSE, plan_start_date |-> 0, plan_end_date |-> 0,
              is_active |-> FALSE]

NoCharge == [exists |-> FALSE, gateway |-> "none", status |-> "none", emitted |-> {}]

NoEvent == [type |-> "", charges |-> <<>>, qr |-> ""]

Idle == [pc |-> "idle", kind |-> "none", pay |-> 0, gateway |-> "none", event |-> NoEvent,
         snap |-> NoRow, cand |-> "none", wrote |-> FALSE, approvedWrite |-> FALSE,
         failed |-> FALSE, didProv |-> FALSE, mkAccount |-> FALSE, mailed |-> FALSE,
         solo |-> FALSE, live |-> "", http |-> 0, error |-> "", body |-> "",
         method |-> "none", provErr |-> "", plan |-> NoPlan, transport |-> FALSE,
         card |-> NoCard, asked |-> "none", step |-> ""]

NoSummary == [kind |-> "none", pay |-> 0, gateway |-> "none", event |-> NoEvent,
              wrote |-> FALSE, didProv |-> FALSE, mkAccount |-> FALSE, mailed |-> FALSE,
              solo |-> FALSE, live |-> "", cand |-> "none"]

NoPair == [first |-> NoSummary, second |-> NoSummary]

Active(i) == proc[i].pc \notin {"idle", "done"}

\* ------------------------------------------------- status normalisation
\* payment-create, Mercado Pago charge response
mapMPStatus(status) ==
  CASE status = "approved" -> "approved"
    [] status \in {"pending", "in_process", "authorized"} -> "pending"
    [] status \in {"rejected", "cancelled"} -> "rejected"
    [] OTHER -> "pending"

\* payment-create, Asaas charge response
mapAsaasStatus(status) ==
  CASE status \in {"RECEIVED", "CONFIRMED"} -> "approved"
    [] status \in {"PENDING", "AWAITING_RISK_ANALYSIS"} -> "pending"
    [] status = "OVERDUE" -> "expired"
    [] OTHER -> "rejected"

\* payment-create, Pagar.me order response
mapPagarmeStatus(status) ==
  CASE status = "paid" -> "approved"
    [] status = "pending" -> "pending"
    [] status \in {"canceled", "failed"} -> "rejected"
    [] OTHER -> "pending"

\* payment-create, PagSeguro order response: pending unless a card charge is PAID
mapPagSeguroCreate(method, chargeStatus) ==
  IF method = "credit_card" /\ chargeStatus = "PAID" THEN "approved" ELSE "pending"

\* payment-status, the switch of checkMercadoPagoStatus
checkMercadoPagoMap(status) ==
  CASE status = "approved" -> "approved"
    [] status \in {"pending", "in_process", "authorized"} -> "pending"
    [] status \in {"rejected", "cancelled"} -> "rejected"
    [] status \in {"refunded", "charged_back"} -> "refunded"
    [] OTHER -> "pending"

\* payment-status, the switch of checkAsaasStatus
checkAsaasMap(status) ==
  CASE status \in {"RECEIVED", "CONFIRMED"} -> "approved"
    [] status \in {"PENDING", "AWAITING_RISK_ANALYSIS"} -> "pending"
    [] status = "OVERDUE" -> "expired"
    [] status \in {"REFUNDED", "REFUND_REQUESTED"} -> "refunded"
    [] OTHER -> "rejected"

\* webhook-mercadopago: the live status of the charge, default the stored status
webhookMPStatus(status, stored) ==
  CASE status = "approved" -> "approved"
    [] status \in {"pending", "in_process", "authorized"} -> "pending"
    [] status \in {"rejected", "cancelled"} -> "rejected"
    [] status \in {"refunded", "charged_back"} -> "refunded"
    [] OTHER -> stored

\* webhook-asaas
asaasPaymentEvents ==
  {"PAYMENT_CONFIRMED", "PAYMENT_RECEIVED", "PAYMENT_OVERDUE", "PAYMENT_DELETED",
   "PAYMENT_REFUNDED"}

webhookAsaasStatus(event, stored) ==
  CASE event \in {"PAYMENT_CONFIRMED", "PAYMENT_RECEIVED"} -> "approved"
    [] event = "PAYMENT_OVERDUE" -> "expired"
    [] event = "PAYMENT_DELETED" -> "rejected"
    [] event = "PAYMENT_REFUNDED" -> "refunded"
    [] OTHER -> stored

\* webhook-pagarme
pagarmeRelevantEvents ==
  {"order.paid", "order.payment_failed", "order.canceled", "charge.paid",
   "charge.payment_failed", "charge.refunded"}

webhookPagarmeStatus(eventType, stored) ==
  CASE eventType \in {"order.paid", "charge.paid"} -> "approved"
    [] eventType \in {"order.payment_failed", "charge.payment_failed"} -> "rejected"
    [] eventType = "order.canceled" -> "rejected"
    [] eventType = "charge.refunded" -> "refunded"
    [] OTHER -> stored

\* webhook-pagseguro: the loop over body.charges (PAID breaks out of it), then qr_codes
RECURSIVE chargesStatus(_, _)
chargesStatus(charges, acc) ==
  IF charges = <<>> THEN acc
  ELSE IF Head(charges) = "PAID" THEN "approved"
  ELSE IF Head(charges) \in {"DECLINED", "CANCELED"}
       THEN chargesStatus(Tail(charges), "rejected")
       ELSE chargesStatus(Tail(charges), acc)

webhookPagSeguroStatus(body, stored) ==
  IF body.qr = "PAID" THEN "approved" ELSE chargesStatus(body.charges, stored)

\* The receiver's candidate status for an event, given the row it read.
\* (Mercado Pago's candidate comes from the live fetch, see WebhookFetch.)
webhookCandidate(g, event, stored) ==
  CASE g = "asaas" -> webhookAsaasStatus(event.type, stored)
    [] g = "pagarme" -> webhookPagarmeStatus(event.type, stored)
    [] g = "pagseguro" -> webhookPagSeguroStatus(event, stored)
    [] OTHER -> stored

\* The receiver's early return on an event type outside its list.
webhookRelevant(g, event) ==
  CASE g = "asaas" -> event.type \in asaasPaymentEvents
    [] g = "pagarme" -> event.type \in pagarmeRelevantEvents
    [] g = "mercado_pago" -> event.type = "payment"
    [] OTHER -> TRUE

statusChangedAlways(newStatus, stored) == TRUE

\* "Only process if status changed": the guard in front of every status write.
statusChanged(newStatus, stored) == newStatus # stored

syncApprovedNever(method, status) == FALSE

\* payment-create: "If credit card approved, process user creation immediately".
syncApproved(method, status) == method = "credit_card" /\ status = "approved"

\* ------------------------------------------------- the gateways' side
\* What a gateway's charge/status endpoint answers for a charge in a given state.
NativeStatus(g, s) ==
  CASE g = "mercado_pago" ->
         (CASE s = "pending" -> {"pending", "in_process"}
            [] s = "approved" -> {"approved"}
            [] s = "rejected" -> {"rejected", "cancelled"}
            [] s = "expired" -> {"cancelled"}
            [] OTHER -> {"refunded", "charged_back"})
    [] g = "asaas" ->
         (CASE s = "pending" -> {"PENDING", "AWAITING_RISK_ANALYSIS"}
            [] s = "approved" -> {"RECEIVED", "CONFIRMED"}
            [] s = "rejected" -> {"DELETED"}
            [] s = "expired" -> {"OVERDUE"}
            [] OTHER -> {"REFUNDED", "REFUND_REQUESTED"})
    [] g = "pagseguro" ->
         (CASE s = "pending" -> {"WAITING"}
            [] s = "approved" -> {"PAID"}
            [] s = "rejected" -> {"DECLINED", "CANCELED"}
            [] OTHER -> {"CANCELED"})
    [] OTHER ->
         (CASE s = "pending" -> {"pending"}
            [] s = "approved" -> {"paid"}
            [] s = "rejected" -> {"failed", "canceled"}
            [] OTHER -> {"canceled"})

Ev(t) == [type |-> t, charges |-> <<>>, qr |-> ""]
Body(cs, q) == [type |-> "", charges |-> cs, qr |-> q]

\* The notifications a gateway sends when a charge enters a state.
NativeEvents(g, s) ==
  CASE g = "mercado_pago" -> {Ev("payment")}
    [] g = "asaas" ->
         (CASE s = "pending" -> {Ev("PAYMENT_CREATED")}
            [] s = "approved" -> {Ev("PAYMENT_CONFIRMED"), Ev("PAYMENT_RECEIVED")}
            [] s = "rejected" -> {Ev("PAYMENT_DELETED")}
            [] s = "expired" -> {Ev("PAYMENT_OVERDUE")}
            [] OTHER -> {Ev("PAYMENT_REFUNDED")})
    [] g = "pagseguro" ->
         (CASE s = "pending" -> {Body(<<"WAITING">>, "")}
            [] s = "approved" -> {Body(<<"PAID">>, ""), Body(<<>>, "PAID"),
                                  Body(<<"DECLINED", "PAID">>, "")}
            [] s = "rejected" -> {Body(<<"DECLINED">>, "")}
            [] OTHER -> {Body(<<"CANCELED">>, "")})
    [] OTHER ->
         (CASE s = "pending" -> {Ev("order.created")}
            [] s = "approved" -> {Ev("order.paid"), Ev("charge.paid")}
            [] s = "rejected" -> {Ev("order.payment_failed"), Ev("charge.payment_failed")}
            [] s = "expired" -> {Ev("order.canceled")}
            [] OTHER -> {Ev("charge.refunded")})

\* The charge's life at the gateway: paid, declined or lapsed from pending; an
\* overdue charge can still be paid; a paid charge can be refunded.
GatewayNext(s) ==
  CASE s = "pending" -> {"approved", "rejected", "expired"}
    [] s = "expired" -> {"approved"}
    [] s = "approved" -> {"refunded"}
    [] OTHER -> {}

\* ------------------------------------------------------------ bookkeeping
Summary(l) ==
  [kind |-> l.kind, pay |-> l.pay, gateway |-> l.gateway, event |-> l.event,
   wrote |-> l.wrote, didProv |-> l.didProv, mkAccount |-> l.mkAccount,
   mailed |-> l.mailed, solo |-> l.solo, live |-> l.live, cand |-> l.cand]

\* Two deliveries of the same notification to the same receiver (for Mercado
\* Pago, whose notification only names the charge: with the same live status).
SameDelivery(a, b) ==
  /\ a.kind = "webhook" /\ b.kind = "webhook"
  /\ a.pay = b.pay /\ a.gateway = b.gateway /\ a.event = b.event /\ a.live = b.live

\* When an invocation responds, remember it; two invocations that each ran with
\* no other invocation in flight, one right after the other, form a pair.
Record(l) ==
  IF l.pc = "done"
  THEN /\ last' = Summary(l)
       /\ pair' = IF l.solo /\ last.solo /\ SameDelivery(last, Summary(l))
                  THEN [first |-> last, second |-> Summary(l)]
                  ELSE NoPair
  ELSE UNCHANGED <<last, pair>>

\* CheckoutPage processPayment after payment-create has answered: the error
\* step on fnError (any answer that is not 2xx) or on data.error, the success
\* step otherwise.
checkoutStep(http, error) ==
  IF http \notin 200..299 THEN "error"
  ELSE IF error # "" THEN "error"
  ELSE "success"

\* The checkout page takes the response of the creation request it sent.
Respond(l) ==
  IF l.kind = "create" /\ l.pc = "done"
  THEN [l EXCEPT !.step = checkoutStep(l.http, l.error)]
  ELSE l

FreeSlot(i) == /\ ~Active(i)
               /\ \A j \in Procs : j < i => Active(j)

\* A request arrives and runs up to its first await.
Start(i, l) ==
  /\ requests < MaxRequests
  /\ FreeSlot(i)
  /\ requests' = requests + 1
  /\ LET me == Respond([l EXCEPT !.solo = \A j \in Procs \ {i} : ~Active(j)])
     IN /\ proc' = [j \in Procs |->
                      IF j = i THEN me
                      ELSE IF Active(j) THEN [proc[j] EXCEPT !.solo = FALSE]
                      ELSE proc[j]]
        /\ Record(me)

\* A running invocation resumes after an await and runs to its next one.
Continue(i, l) ==
  /\ proc' = [proc EXCEPT ![i] = Respond(l)]
  /\ Record(l)

UpdateStatusClearsClient(row, newStatus) ==
  [row EXCEPT !.status = newStatus, !.client_id = 0, !.ver = @ + 1]

\* supabase.from('payments').update(updateData).eq('id', id): status, and paid_at
\* only when the new status is approved; the other columns keep their values.
UpdateStatus(row, newStatus) ==
  [row EXCEPT !.status = newStatus,
              !.paid_at = IF newStatus = "approved" THEN now ELSE @,
              !.ver = @ + 1]

\* ----------------------------------------------------------- provisioning
newEndDateOverwrite(currentEnd, today, duration_days) == today + duration_days

\* handlePaymentApproved, renewal branch: "If existing plan hasn't expired, add
\* to it" (plan_end_date unset is 0 here).
newEndDate(currentEnd, today, duration_days) ==
  IF currentEnd # 0 /\ currentEnd > today
  THEN currentEnd + duration_days
  ELSE today + duration_days

\* How the account creation of a provisioning run can end.
ProvisionOutcomes == {"ok", "auth_error", "profile_error"}

\* createUser answers authError when the e-mail already has an identity.
createOutcome(e, outcome) == IF created[e] > 0 THEN "auth_error" ELSE outcome

\* Only webhook-mercadopago looks at the result of the profile insert.
checksProfileError(handler) == handler = "mercado_pago"

newProfileInactive(today, planEndDate) ==
  [exists |-> TRUE, plan_start_date |-> today, plan_end_date |-> planEndDate,
   is_active |-> FALSE]

\* The row of the insert into profiles for a new account.
newProfile(today, planEndDate) ==
  [exists |-> TRUE, plan_start_date |-> today, plan_end_date |-> planEndDate,
   is_active |-> TRUE]

\* handlePaymentApproved(supabase, payment[, plan]): payment is the row the
\* caller read (or inserted) before the status write, pl the plan it uses,
\* handler the function it is a copy in ("create" or the receiver's gateway).
HandlePaymentApproved(p, payment, pl, handler, outcome) ==
  LET e == payment.email
      planEndDate == now + pl.duration_days
  IN
  /\ provCount' = [provCount EXCEPT ![p] = @ + 1]
  /\ IF ~pl.exists
     THEN UNCHANGED <<profiles, payments, emails, created>>
     ELSE IF payment.client_id # 0
     THEN LET prof == profiles[payment.client_id]
              extended == newEndDate(prof.plan_end_date, now, pl.duration_days)
          IN /\ profiles' = IF prof.exists
                            THEN [profiles EXCEPT ![payment.client_id] =
                                    [@ EXCEPT !.plan_end_date = extended,
                                              !.is_active = TRUE]]
                            ELSE profiles
             /\ UNCHANGED <<payments, emails, created>>
     ELSE IF profiles[e].exists
     THEN /\ profiles' = [profiles EXCEPT ![e] =
                            [@ EXCEPT !.plan_end_date = planEndDate, !.is_active = TRUE]]
          /\ payments' = [payments EXCEPT ![p] = [@ EXCEPT !.client_id = e]]
          /\ UNCHANGED <<emails, created>>
     ELSE CASE createOutcome(e, outcome) = "auth_error" ->
                 UNCHANGED <<profiles, payments, emails, created>>
            [] createOutcome(e, outcome) = "profile_error" /\ checksProfileError(handler) ->
                 /\ created' = [created EXCEPT ![e] = @ + 1]
                 /\ UNCHANGED <<profiles, payments, emails>>
            [] createOutcome(e, outcome) = "profile_error" /\ ~checksProfileError(handler) ->
                 /\ created' = [created EXCEPT ![e] = @ + 1]
                 /\ payments' = [payments EXCEPT ![p] = [@ EXCEPT !.client_id = e]]
                 /\ emails' = emails + 1
                 /\ UNCHANGED profiles
            [] OTHER ->
                 /\ created' = [created EXCEPT ![e] = @ + 1]
                 /\ profiles' = [profiles EXCEPT ![e] = newProfile(now, planEndDate)]
                 /\ payments' = [payments EXCEPT ![p] = [@ EXCEPT !.client_id = e]]
                 /\ emails' = emails + 1

\* What the run of handlePaymentApproved did, for the invocation's record.
Provisioned(l, payment, handler, outcome) ==
  LET newAccount == payment.client_id = 0 /\ ~profiles[payment.email].exists
      result == createOutcome(payment.email, outcome)
  IN [l EXCEPT !.pc = "done", !.didProv = TRUE, !.http = 200,
               !.mkAccount = (newAccount /\ result # "auth_error"),
               !.mailed = (newAccount /\ (result = "ok" \/
                             (result = "profile_error" /\ ~checksProfileError(handler)))),
               !.provErr = IF newAccount /\ result # "ok" THEN result ELSE ""]

\* -------------------------------------------------------- payment-create
\* The status the adapter of gateway g returns for the charge it created.
createStatus(g, method, native) ==
  CASE g = "mercado_pago" -> mapMPStatus(native)
    [] g = "asaas" -> mapAsaasStatus(native)
    [] g = "pagseguro" -> mapPagSeguroCreate(method, native)
    [] OTHER -> mapPagarmeStatus(native)

\* The state a gateway can answer a new charge in: a card is authorised or
\* declined at once, PIX and boleto wait for the customer.
InitialCharge(method) ==
  IF method = "credit_card" THEN {"pending", "approved", "rejected"} ELSE {"pending"}

validationErrorNone(s, pl, method) == ""

\* payment-create: the checks in front of the adapter call, in the code's order
\* ("" when they all pass).
validationError(s, pl, method) ==
  IF method = "pix" /\ ~s.pix_enabled THEN "PIX nao esta habilitado"
  ELSE IF method = "boleto" /\ ~s.boleto_enabled THEN "Boleto nao esta habilitado"
  ELSE IF method = "credit_card" /\ ~s.credit_card_enabled
       THEN "Cartao de credito nao esta habilitado"
  ELSE IF ~(pl.exists /\ pl.is_active) THEN "Plano nao encontrado"
  ELSE IF s.active_gateway \notin Gateways THEN "Gateway nao configurado"
  ELSE ""

\* The brand the gateway names in its answer to a card charge: that of the
\* number's issuer range.
cardBrand(number) ==
  IF number = <<>> THEN "" ELSE IF Head(number) = 1 THEN "visa" ELSE "master"

cardLastDigitsWhole(number) == number

\* card?.number?.slice(-4)
cardLastDigits(number) ==
  IF Len(number) <= 4 THEN number ELSE SubSeq(number, Len(number) - 3, Len(number))

\* card?.installments || 1
rowInstallments(card) == IF card.installments = 0 THEN 1 ELSE card.installments

\* The adapter's catch around its calls to the gateway:
\* "return { error: 'Erro de comunicacao com ...' }".
communicationError(g) ==
  CASE g = "mercado_pago" -> "Erro de comunicacao com Mercado Pago"
    [] g = "asaas" -> "Erro de comunicacao com Asaas"
    [] g = "pagseguro" -> "Erro de comunicacao com PagSeguro"
    [] OTHER -> "Erro de comunicacao com Pagar.me"

\* What the adapter of gateway g can return: { error }, or the charge it created
\* (charge: the state the gateway answered the new charge in).
adapterResults(g, method) ==
  {[error |-> "Erro ao processar pagamento", status |-> "none", charge |-> "none"],
   [error |-> communicationError(g), status |-> "none", charge |-> "none"]}
  \cup UNION {{[error |-> "", status |-> createStatus(g, method, native), charge |-> s0] :
                 native \in NativeStatus(g, s0)} : s0 \in InitialCharge(method)}

adapterErrorNever(paymentResult) == FALSE

\* "if (paymentResult.error)"
adapterError(paymentResult) == paymentResult.error # ""

\* Request in, validation and lookups, then the adapter's call to the gateway.
CreateStart(i, p, method, e, card) ==
  /\ ~gw[p].exists /\ ~payments[p].exists
  /\ \A j \in Procs : ~(Active(j) /\ proc[j].kind = "create" /\ proc[j].pay = p)
  /\ LET g == settings.active_gateway
         base == [Idle EXCEPT !.kind = "create", !.pay = p, !.gateway = g,
                              !.method = method, !.plan = plan, !.card = card]
         invalid == validationError(settings, plan, method)
     IN IF invalid # ""
        THEN /\ Start(i, [base EXCEPT !.pc = "done", !.http = 400, !.error = invalid])
             /\ UNCHANGED gw
        ELSE \E paymentResult \in adapterResults(g, method) :
               IF adapterError(paymentResult)
               THEN /\ Start(i, [base EXCEPT !.pc = "done", !.http = 400,
                                             !.error = paymentResult.error,
                                             !.transport =
                                               (paymentResult.error =
                                                  communicationError(g))])
                    /\ UNCHANGED gw
               ELSE LET row == [exists |-> TRUE, gateway |-> g, method |-> method,
                                status |-> paymentResult.status, paid_at |-> 0,
                                client_id |-> IF profiles[e].exists THEN e ELSE 0,
                                email |-> e, ver |-> 0,
                                amount_cents |-> plan.price_cents,
                                duration0 |-> plan.duration_days,
                                card_last_digits |-> cardLastDigits(card.number),
                                card_brand |-> cardBrand(card.number),
                                installments |-> rowInstallments(card)]
                    IN /\ Start(i, [base EXCEPT !.pc = "cr_insert", !.snap = row,
                                                !.cand = paymentResult.status,
                                                !.error = paymentResult.error])
                       /\ gw' = [gw EXCEPT ![p] = [exists |-> TRUE, gateway |-> g,
                                                   status |-> paymentResult.charge,
                                                   emitted |-> {paymentResult.charge}]]
  /\ UNCHANGED <<payments, profiles, settings, plan, now, provCount, wasApproved,
                 emails, created>>

\* supabase.from('payments').insert(...).select().single()
CreateInsert(i) ==
  /\ proc[i].pc = "cr_insert"
  /\ LET l == proc[i]
         row == [l.snap EXCEPT !.paid_at = IF l.cand = "approved" THEN now ELSE 0]
     IN \/ \* paymentError: 500, nothing stored
           /\ Continue(i, [l EXCEPT !.pc = "done", !.http = 500, !.failed = TRUE])
           /\ UNCHANGED <<payments, wasApproved>>
        \/ /\ payments' = [payments EXCEPT ![l.pay] = row]
           /\ wasApproved' = [wasApproved EXCEPT ![l.pay] = @ \/ row.status = "approved"]
           /\ Continue(i, [l EXCEPT !.snap = row, !.wrote = TRUE,
                                    !.approvedWrite = (row.status = "approved"),
                                    !.pc = IF syncApproved(row.method, l.cand)
                                           THEN "cr_prov" ELSE "done",
                                    !.http = 200])
  /\ UNCHANGED <<profiles, settings, plan, gw, now, requests, provCount, emails, created>>

\* await handlePaymentApproved(supabase, payment, plan)
CreateProvision(i) ==
  /\ proc[i].pc = "cr_prov"
  /\ \E outcome \in ProvisionOutcomes :
       /\ HandlePaymentApproved(proc[i].pay, proc[i].snap, proc[i].plan, "create",
                                outcome)
       /\ Continue(i, Provisioned(proc[i], proc[i].snap, "create", outcome))
  /\ UNCHANGED <<settings, plan, gw, now, requests, wasApproved>>

\* ------------------------------------------------------ webhook receivers
\* The notifications the gateway has sent for a charge: each can be delivered
\* any number of times, in any order.
Deliverable(g, p) ==
  IF gw[p].exists /\ gw[p].gateway = g
  THEN UNION {NativeEvents(g, s) : s \in gw[p].emitted}
  ELSE {}

rowFoundAlways(row, g) == TRUE

\* The select by (gateway_payment_id, gateway) and "if (paymentError || !dbPayment)".
rowFound(row, g) == row.exists /\ row.gateway = g

\* Body parsed, early returns, and the select of the row by (gateway, external id).
WebhookStart(i, g, p, event) ==
  /\ event \in Deliverable(g, p)
  /\ LET row == payments[p]
         found == rowFound(row, g)
         base == [Idle EXCEPT !.kind = "webhook", !.pay = p, !.gateway = g,
                              !.event = event]
     IN IF ~webhookRelevant(g, event) \/ ~found
        THEN Start(i, [base EXCEPT !.pc = "done", !.http = 200])
        ELSE Start(i, [base EXCEPT !.snap = row,
                                   !.cand = webhookCandidate(g, event, row.status),
                                   !.pc = IF g = "mercado_pago" THEN "wh_fetch"
                                          ELSE "wh_write"])
  /\ UNCHANGED <<payments, profiles, settings, plan, gw, now, provCount, wasApproved,
                 emails, created>>

\* Request bodies a receiver cannot use: text that is not JSON, the JSON null,
\* a JSON number or string, an object without the payment's id.
MalformedBodies == {"unparsable", "null", "scalar", "no_id"}

\* The receiver's answer to such a body: req.json() and the property access on
\* null throw into the catch (500); a missing field takes an early return (200).
malformedResponse(body) == IF body \in {"unparsable", "null"} THEN 500 ELSE 200

\* A body the receiver cannot use: no await is reached before the response.
WebhookMalformed(i, g, body) ==
  /\ Start(i, [Idle EXCEPT !.kind = "webhook", !.gateway = g, !.body = body,
                           !.pc = "done", !.http = malformedResponse(body),
                           !.failed = (malformedResponse(body) = 500)])
  /\ UNCHANGED <<payments, profiles, settings, plan, gw, now, provCount, wasApproved,
                 emails, created>>

\* webhook-mercadopago: GET /v1/payments/{id}, then the switch on its status.
WebhookFetch(i) ==
  /\ proc[i].pc = "wh_fetch"
  /\ LET l == proc[i] IN
       \/ \* fetch throws: the catch answers 500
          Continue(i, [l EXCEPT !.pc = "done", !.http = 500, !.failed = TRUE,
                                !.transport = TRUE])
       \/ \E native \in NativeStatus("mercado_pago", gw[l.pay].status) \cup {"error"} :
            Continue(i, [l EXCEPT !.pc = "wh_write", !.live = native,
                                  !.cand = webhookMPStatus(native, l.snap.status)])
  /\ UNCHANGED <<payments, profiles, settings, plan, gw, now, requests, provCount,
                 wasApproved, emails, created>>

\* The comparison with the status that was read, then the update by id. The
\* update's result is not looked at: an update that fails changes nothing and
\* the handler goes on.
WebhookWrite(i) ==
  /\ proc[i].pc = "wh_write"
  /\ LET l == proc[i]
         next == IF l.cand = "approved" THEN "wh_prov" ELSE "done"
     IN IF ~statusChanged(l.cand, l.snap.status)
        THEN /\ Continue(i, [l EXCEPT !.pc = "done", !.http = 200])
             /\ UNCHANGED <<payments, wasApproved>>
        ELSE \/ /\ payments' = [payments EXCEPT ![l.pay] = UpdateStatus(@, l.cand)]
                /\ wasApproved' = [wasApproved EXCEPT ![l.pay] = @ \/ l.cand = "approved"]
                /\ Continue(i, [l EXCEPT !.pc = next, !.http = 200, !.wrote = TRUE,
                                         !.approvedWrite = (l.cand = "approved")])
             \/ /\ UNCHANGED <<payments, wasApproved>>
                /\ Continue(i, [l EXCEPT !.pc = next, !.http = 200, !.failed = TRUE])
  /\ UNCHANGED <<profiles, settings, plan, gw, now, requests, provCount, emails, created>>

\* await handlePaymentApproved(supabase, dbPayment): the plan is read again.
WebhookProvision(i) ==
  /\ proc[i].pc = "wh_prov"
  /\ \E outcome \in ProvisionOutcomes :
       /\ HandlePaymentApproved(proc[i].pay, proc[i].snap, plan, proc[i].gateway, outcome)
       /\ Continue(i, Provisioned(proc[i], proc[i].snap, proc[i].gateway, outcome))
  /\ UNCHANGED <<settings, plan, gw, now, requests, wasApproved>>

\* --------------------------------------------------------- payment-status
\* "Update payment if status changed": the poll's guard in front of its write.
pollStatusChanged(gatewayStatus, stored) == gatewayStatus # stored

\* What the provider named by the settings answers for the row's external id:
\* the charge's state if the charge is its own, an error body otherwise.
Answers(g, p) ==
  IF gw[p].exists /\ gw[p].gateway = g THEN NativeStatus(g, gw[p].status) ELSE {"error"}

checkFailedStatusApproved == "approved"

\* The catch of checkMercadoPagoStatus and checkAsaasStatus:
\* "return { status: 'pending' }".
checkFailedStatus == "pending"

pollReturnsStoredNever(status) == FALSE

\* "If expired or rejected, return that status"
pollReturnsStored(status) == status \in {"expired", "rejected"}

\* The select of the row by id and the returns on approved, expired, rejected.
PollStart(i, p) ==
  /\ LET row == payments[p]
         base == [Idle EXCEPT !.kind = "poll", !.pay = p, !.snap = row]
     IN IF ~row.exists
        THEN Start(i, [base EXCEPT !.pc = "done", !.http = 404])
        ELSE IF row.status = "approved" \/ pollReturnsStored(row.status)
        THEN Start(i, [base EXCEPT !.pc = "done", !.http = 200, !.cand = row.status])
        ELSE Start(i, [base EXCEPT !.pc = "poll_check", !.gateway = row.gateway])
  /\ UNCHANGED <<payments, profiles, settings, plan, gw, now, provCount, wasApproved,
                 emails, created>>

\* The select of the settings, then checkMercadoPagoStatus / checkAsaasStatus
\* for settings.active_gateway (their catch answers pending); any other
\* gateway: the stored status.
PollCheck(i) ==
  /\ proc[i].pc = "poll_check"
  /\ LET l == proc[i]
         g == settings.active_gateway
     IN CASE g = "mercado_pago" ->
               \/ Continue(i, [l EXCEPT !.pc = "poll_write", !.asked = g,
                                        !.cand = checkFailedStatus,
                                        !.failed = TRUE, !.transport = TRUE])
               \/ \E native \in Answers(g, l.pay) :
                    Continue(i, [l EXCEPT !.pc = "poll_write", !.live = native,
                                          !.asked = g,
                                          !.cand = checkMercadoPagoMap(native)])
          [] g = "asaas" ->
               \/ Continue(i, [l EXCEPT !.pc = "poll_write", !.asked = g,
                                        !.cand = checkFailedStatus,
                                        !.failed = TRUE, !.transport = TRUE])
               \/ \E native \in Answers(g, l.pay) :
                    Continue(i, [l EXCEPT !.pc = "poll_write", !.live = native,
                                          !.asked = g,
                                          !.cand = checkAsaasMap(native)])
          [] OTHER ->
               Continue(i, [l EXCEPT !.pc = "poll_write", !.cand = l.snap.status])
  /\ UNCHANGED <<payments, profiles, settings, plan, gw, now, requests, provCount,
                 wasApproved, emails, created>>

\* The update by id when the gateway's status differs from the one read, then
\* the response; handlePaymentApproved is not called on this path.
PollWrite(i) ==
  /\ proc[i].pc = "poll_write"
  /\ LET l == proc[i] IN
       IF ~pollStatusChanged(l.cand, l.snap.status)
       THEN /\ Continue(i, [l EXCEPT !.pc = "done", !.http = 200])
            /\ UNCHANGED <<payments, wasApproved>>
       ELSE \/ /\ payments' = [payments EXCEPT ![l.pay] = UpdateStatus(@, l.cand)]
               /\ wasApproved' = [wasApproved EXCEPT ![l.pay] = @ \/ l.cand = "approved"]
               /\ Continue(i, [l EXCEPT !.pc = "done", !.http = 200, !.wrote = TRUE,
                                        !.approvedWrite = (l.cand = "approved")])
            \/ /\ UNCHANGED <<payments, wasApproved>>
               /\ Continue(i, [l EXCEPT !.pc = "done", !.http = 200, !.failed = TRUE])
  /\ UNCHANGED <<profiles, settings, plan, gw, now, requests, provCount, emails, created>>

\* ------------------------------------------------------------ environment
\* The charge changes state at the gateway, which sends a notification of it.
GatewayAdvance(p) ==
  /\ gw[p].exists
  /\ \E s \in GatewayNext(gw[p].status) :
       gw' = [gw EXCEPT ![p] = [@ EXCEPT !.status = s, !.emitted = @ \cup {s}]]
  /\ UNCHANGED <<payments, profiles, settings, plan, now, proc, requests, provCount,
                 wasApproved, emails, created, last, pair>>

\* The customer gets an account outside this payment: another payment of theirs
\* is provisioned, or the owner registers them.
AccountAppears(e) ==
  /\ ~profiles[e].exists
  /\ \E d \in {0, MaxTime} :
       profiles' = [profiles EXCEPT ![e] = [exists |-> TRUE, plan_start_date |-> 0,
                                            plan_end_date |-> d,
                                            is_active |-> d > 0]]
  /\ UNCHANGED <<payments, settings, plan, gw, now, proc, requests, provCount,
                 wasApproved, emails, created, last, pair>>

\* PlansManager handleSubmit, editing the plan: the form's duration, price and
\* active flag replace the row's; a price that is not positive is refused.
PlanDurations == {PlanDays, PlanDays + 1}
PlanPrices == {0, PlanPrice, PlanPrice + 1}

handleSubmit(duration_days, price_cents, is_active) ==
  /\ plan.exists
  /\ price_cents > 0
  /\ plan' = [plan EXCEPT !.duration_days = duration_days,
                          !.price_cents = price_cents, !.is_active = is_active]
  /\ plan' # plan
  /\ UNCHANGED <<payments, profiles, settings, gw, now, proc, requests, provCount,
                 wasApproved, emails, created, last, pair>>

\* PaymentSettings handleSave: the settings form replaces the owner's row; the
\* owner picks another active gateway and leaves the method toggles as loaded.
handleSave(active_gateway) ==
  /\ settings' = [settings EXCEPT !.active_gateway = active_gateway]
  /\ settings' # settings
  /\ UNCHANGED <<payments, profiles, plan, gw, now, proc, requests, provCount,
                 wasApproved, emails, created, last, pair>>

Tick ==
  /\ now < MaxTime
  /\ now' = now + 1
  /\ UNCHANGED <<payments, profiles, settings, plan, gw, proc, requests, provCount,
                 wasApproved, emails, created, last, pair>>

\* ---------------------------------------------------------- specification
Init ==
  /\ payments = [p \in PayIds |-> NoRow]
  /\ profiles \in [Emails -> {NoProfile} \cup
                     {[exists |-> TRUE, plan_start_date |-> 0, plan_end_date |-> d,
                      is_active |-> d > 0] :
                        d \in {0, MaxTime}}]
  /\ settings \in {[active_gateway |-> g, pix_enabled |-> TRUE, boleto_enabled |-> TRUE,
                    credit_card_enabled |-> TRUE] : g \in Gateways}
  /\ plan = [exists |-> TRUE, is_active |-> TRUE, duration_days |-> PlanDays,
             price_cents |-> PlanPrice]
  /\ gw = [p \in PayIds |-> NoCharge]
  /\ now = 1
  /\ proc = [i \in Procs |-> Idle]
  /\ requests = 0
  /\ provCount = [p \in PayIds |-> 0]
  /\ wasApproved = [p \in PayIds |-> FALSE]
  /\ emails = 0
  /\ created = [e \in Emails |-> 0]
  /\ last = NoSummary
  /\ pair = NoPair

Next ==
  \/ \E i \in Procs, p \in PayIds, m \in Methods, e \in Emails :
       CreateStart(i, p, m, e, IF m = "credit_card" THEN DefaultCard ELSE NoCard)
  \/ \E i \in Procs : CreateInsert(i)
  \/ \E i \in Procs : CreateProvision(i)
  \/ \E i \in Procs, g \in Gateways, p \in PayIds :
       \E event \in Deliverable(g, p) : WebhookStart(i, g, p, event)
  \/ \E i \in Procs : WebhookFetch(i)
  \/ \E i \in Procs : WebhookWrite(i)
  \/ \E i \in Procs : WebhookProvision(i)
  \/ \E i \in Procs, p \in PayIds : PollStart(i, p)
  \/ \E i \in Procs : PollCheck(i)
  \/ \E i \in Procs : PollWrite(i)
  \/ \E p \in PayIds : GatewayAdvance(p)
  \/ Tick
  \/ \E e \in Emails : AccountAppears(e)

Spec == Init /\ [][Next]_vars

\* Request handling on its own: creation requests against any settings and
\* plan the owner can have saved, and webhook bodies a receiver cannot use.
InitRequests ==
  /\ payments = [p \in PayIds |-> NoRow]
  /\ profiles \in [Emails -> {NoProfile} \cup
                     {[exists |-> TRUE, plan_start_date |-> 0, plan_end_date |-> d,
                      is_active |-> d > 0] :
                        d \in {0, MaxTime}}]
  /\ settings \in [active_gateway : Gateways \cup {"none"}, pix_enabled : BOOLEAN,
                    boleto_enabled : BOOLEAN, credit_card_enabled : BOOLEAN]
  /\ plan \in {[exists |-> x, is_active |-> a, duration_days |-> PlanDays,
                  price_cents |-> PlanPrice] :
                 x \in BOOLEAN, a \in BOOLEAN}
  /\ gw = [p \in PayIds |-> NoCharge]
  /\ now = 1
  /\ proc = [i \in Procs |-> Idle]
  /\ requests = 0
  /\ provCount = [p \in PayIds |-> 0]
  /\ wasApproved = [p \in PayIds |-> FALSE]
  /\ emails = 0
  /\ created = [e \in Emails |-> 0]
  /\ last = NoSummary
  /\ pair = NoPair

NextRequests ==
  \/ \E i \in Procs, p \in PayIds, m \in Methods, e \in Emails :
       CreateStart(i, p, m, e, IF m = "credit_card" THEN DefaultCard ELSE NoCard)
  \/ \E i \in Procs : CreateInsert(i)
  \/ \E i \in Procs : CreateProvision(i)
  \/ \E i \in Procs, g \in Gateways, body \in MalformedBodies :
       WebhookMalformed(i, g, body)

SpecRequests == InitRequests /\ [][NextRequests]_vars

\* The owner at work while payments are in flight, customers having no account
\* yet: plan edits interleave with creation and the receivers.
InitOwner ==
  /\ payments = [p \in PayIds |-> NoRow]
  /\ profiles = [e \in Emails |-> NoProfile]
  /\ settings \in {[active_gateway |-> g, pix_enabled |-> TRUE, boleto_enabled |-> TRUE,
                    credit_card_enabled |-> TRUE] : g \in Gateways}
  /\ plan = [exists |-> TRUE, is_active |-> TRUE, duration_days |-> PlanDays,
             price_cents |-> PlanPrice]
  /\ gw = [p \in PayIds |-> NoCharge]
  /\ now = 1
  /\ proc = [i \in Procs |-> Idle]
  /\ requests = 0
  /\ provCount = [p \in PayIds |-> 0]
  /\ wasApproved = [p \in PayIds |-> FALSE]
  /\ emails = 0
  /\ created = [e \in Emails |-> 0]
  /\ last = NoSummary
  /\ pair = NoPair

NextPlans ==
  \/ \E i \in Procs, p \in PayIds, m \in Methods, e \in Emails :
       CreateStart(i, p, m, e, IF m = "credit_card" THEN DefaultCard ELSE NoCard)
  \/ \E i \in Procs : CreateInsert(i)
  \/ \E i \in Procs : CreateProvision(i)
  \/ \E i \in Procs, g \in Gateways, p \in PayIds :
       \E event \in Deliverable(g, p) : WebhookStart(i, g, p, event)
  \/ \E i \in Procs : WebhookFetch(i)
  \/ \E i \in Procs : WebhookWrite(i)
  \/ \E i \in Procs : WebhookProvision(i)
  \/ \E p \in PayIds : GatewayAdvance(p)
  \/ \E d \in PlanDurations, c \in PlanPrices : handleSubmit(d, c, plan.is_active)

\* Plan edits are followed through a receiver that fetches the live status and
\* one that reads the event.
InitPlans == InitOwner /\ settings.active_gateway \in {"mercado_pago", "asaas"}

SpecPlans == InitPlans /\ [][NextPlans]_vars

\* Settings saves interleave with creation and the status polls.
NextSettings ==
  \/ \E i \in Procs, p \in PayIds, m \in Methods, e \in Emails :
       CreateStart(i, p, m, e, IF m = "credit_card" THEN DefaultCard ELSE NoCard)
  \/ \E i \in Procs : CreateInsert(i)
  \/ \E i \in Procs : CreateProvision(i)
  \/ \E i \in Procs, p \in PayIds : PollStart(i, p)
  \/ \E i \in Procs : PollCheck(i)
  \/ \E i \in Procs : PollWrite(i)
  \/ \E p \in PayIds : GatewayAdvance(p)
  \/ \E g \in Gateways \cup {"none"} : handleSave(g)

SpecSettings == InitOwner /\ [][NextSettings]_vars

\* A card checkout with every card the customer can type (one request, run to
\* its response).
NextCards ==
  \/ \E i \in Procs, p \in PayIds, e \in Emails, card \in Cards :
       requests = 0 /\ CreateStart(i, p, "credit_card", e, card)
  \/ \E i \in Procs : CreateInsert(i)
  \/ \E i \in Procs : CreateProvision(i)

SpecCards == InitOwner /\ [][NextCards]_vars

TypeOK ==
  /\ \A p \in PayIds : payments[p].exists => payments[p].status \in Status
  /\ now \in 1..MaxTime
  /\ requests \in 0..MaxRequests

\* ================================================================ claims
Quiet == \A i \in Procs : ~Active(i)

Reconciles(i) == proc[i].kind \in {"webhook", "poll"} /\ proc[i].snap.exists

\* Precedence of the normalized statuses.
Rank(s) ==
  CASE s = "refunded" -> 3
    [] s = "approved" -> 2
    [] s \in {"rejected", "expired"} -> 1
    [] OTHER -> 0

\* C1: once every handler has responded, handlePaymentApproved has been invoked
\* exactly once for a payment whose stored status was ever approved, and never
\* for any other payment.
C1_ProvisionedExactlyOnce ==
  Quiet => \A p \in PayIds : provCount[p] = IF wasApproved[p] THEN 1 ELSE 0

\* C2: of two reconciliation invocations that read the same version of a pending
\* Payment row (so neither had seen the other's write), at most one commits the
\* transition into approved.
C2_AtMostOneTransition ==
  \A i, j \in Procs :
    ( /\ i # j /\ Reconciles(i) /\ Reconciles(j)
      /\ proc[i].pay = proc[j].pay
      /\ proc[i].snap.ver = proc[j].snap.ver
      /\ proc[i].snap.status = "pending" /\ proc[j].snap.status = "pending" )
    => ~(proc[i].approvedWrite /\ proc[j].approvedWrite)

\* C3: when one webhook event is delivered twice in sequence and the first
\* delivery wrote the status, the second delivery writes nothing, invokes no
\* provisioning, creates no account and sends no notification; the first
\* delivery invoked provisioning exactly when its status was approved.
C3_DuplicateDeliveryIsNoOp ==
  pair.first.wrote =>
    /\ ~pair.second.wrote
    /\ ~pair.second.didProv
    /\ ~pair.second.mkAccount
    /\ ~pair.second.mailed
    /\ pair.first.didProv = (pair.first.cand = "approved")

\* C3 witness: an approval event delivered twice in a row, the first delivery
\* having written approved and provisioned.
C3_Witness ==
  /\ pair.first.wrote /\ pair.first.didProv
  /\ pair.second.kind = "webhook" /\ pair.second.cand = "approved"

\* C4: no step replaces a stored status by one of strictly lower precedence.
C4_NoLowerPrecedence ==
  [][\A p \in PayIds :
       payments[p].exists => Rank(payments'[p].status) >= Rank(payments[p].status)]_vars

\* C5: a stored rejected, expired or refunded status never changes, and a stored
\* approved status changes only to refunded.
C5_TerminalStatuses ==
  [][\A p \in PayIds :
       /\ payments[p].status \in {"rejected", "expired", "refunded"}
            => payments'[p].status = payments[p].status
       /\ payments[p].status = "approved"
            => payments'[p].status \in {"approved", "refunded"}]_vars

\* C6: a poll that has written approved over a pending row has invoked the
\* provisioning handler for that payment by the time it responds.
C6_PollProvisions ==
  \A i \in Procs :
    (proc[i].kind = "poll" /\ proc[i].pc = "done" /\ proc[i].approvedWrite)
      => (proc[i].didProv /\ provCount[proc[i].pay] >= 1)

\* C7: in every Payment row paid_at is set if and only if status is approved.
C7_PaidAtIffApproved ==
  \A p \in PayIds :
    payments[p].exists => ((payments[p].paid_at # 0) <=> (payments[p].status = "approved"))

\* C8: once paid_at is set, no step other than a transition to refunded changes it.
C8_PaidAtImmutable ==
  [][\A p \in PayIds :
       (payments[p].paid_at # 0 /\ payments'[p].status # "refunded")
         => payments'[p].paid_at = payments[p].paid_at]_vars

\* C9: a webhook delivery invokes provisioning only if its update of the
\* Payment row committed.
C9_ProvisionAfterCommit ==
  \A i \in Procs :
    (proc[i].kind = "webhook" /\ proc[i].pc \in {"wh_prov", "done"}
       /\ (proc[i].pc = "wh_prov" \/ proc[i].didProv))
      => proc[i].wrote

\* The creation request of payment p has not responded yet.
Creating(p) == \E i \in Procs : Active(i) /\ proc[i].kind = "create" /\ proc[i].pay = p

\* C10: a card charge the gateway approved when it was created, and has reported
\* nothing else about, is stored as approved and provisioned exactly once: by
\* payment creation before it responds, and by no webhook or poll, however
\* they interleave with the creation request.
C10_SyncCardProvisionedOnce ==
  \A p \in PayIds :
    (payments[p].exists /\ payments[p].method = "credit_card"
       /\ gw[p].emitted = {"approved"})
      => /\ payments[p].status = "approved"
         /\ provCount[p] = IF Creating(p) THEN 0 ELSE 1

\* C10 witness: a webhook reporting the approval was handled in full between
\* the creation request's insert and its provisioning.
C10_Witness ==
  \E i, j \in Procs :
    /\ proc[i].kind = "create" /\ proc[i].pc = "cr_prov"
    /\ proc[j].kind = "webhook" /\ proc[j].pc = "done" /\ proc[j].pay = proc[i].pay
    /\ proc[j].snap.exists /\ proc[j].cand = "approved"
    /\ gw[proc[i].pay].emitted = {"approved"}

\* The provisioning call of invocation i runs in this step.
Provisions(i) == proc[i].pc \in {"cr_prov", "wh_prov"} /\ proc'[i].pc = "done"

\* The extension law: a plan that ends after today is extended by the plan's
\* duration, any other restarts from today.
ExtensionLaw(E, today, D) == IF E > today THEN E + D ELSE today + D

\* C11: provisioning for a payment without client_id whose customer e-mail
\* matches an existing account sets the account's plan_end_date by the extension
\* law, as a renewal does, and links the payment to the account.
C11_EmailMatchExtends ==
  [][\A i \in Procs :
       LET payment == proc[i].snap
           e == payment.email
       IN (Provisions(i) /\ payment.client_id = 0 /\ profiles[e].exists)
            => /\ profiles'[e].plan_end_date =
                    ExtensionLaw(profiles[e].plan_end_date, now, plan.duration_days)
               /\ payments'[proc[i].pay].client_id = e]_vars

Arrives(i) == FreeSlot(i) /\ requests' = requests + 1

\* C13: a poll whose gateway lookup failed answers the status it read from the
\* row and leaves the Payment rows as they are.
C13_LookupFailureKeepsStored ==
  [][\A i \in Procs :
       ( /\ proc[i].kind = "poll" /\ proc[i].pc = "poll_write" /\ proc[i].failed
         /\ proc'[i].pc = "done" )
       => /\ proc'[i].cand = proc[i].snap.status
          /\ payments' = payments]_vars

\* C14: a poll of a payment stored as approved goes on to the live lookup at
\* the gateway.
C14_ApprovedPollLooksUp ==
  [][\A i \in Procs :
       ( /\ Arrives(i) /\ proc'[i].kind = "poll"
         /\ proc'[i].snap.exists /\ proc'[i].snap.status = "approved" )
       => proc'[i].pc = "poll_check"]_vars

\* C15: a poll of a payment stored as rejected or expired answers 200 with that
\* status at once, without going on to the gateway lookup, and writes nothing
\* to the Payment rows.
C15_SettledPollReturnsStored ==
  [][\A i \in Procs : \A p \in PayIds :
       ( /\ Arrives(i) /\ proc'[i].kind = "poll" /\ proc'[i].pay = p
         /\ payments[p].exists /\ payments[p].status \in {"rejected", "expired"} )
       => /\ proc'[i].pc = "done" /\ proc'[i].http = 200
          /\ proc'[i].cand = payments[p].status
          /\ payments' = payments]_vars

\* C15 witness: a poll has answered for a row it read as rejected or expired.
C15_Witness ==
  \E i \in Procs :
    /\ proc[i].kind = "poll" /\ proc[i].pc = "done" /\ proc[i].http = 200
    /\ proc[i].snap.exists /\ proc[i].snap.status \in {"rejected", "expired"}

\* C16: a webhook body the receiver cannot use (not JSON, not an object, no
\* payment id) is answered with 200 and changes no stored row.
C16_MalformedAcknowledged ==
  [][\A i \in Procs :
       (Arrives(i) /\ proc'[i].kind = "webhook" /\ proc'[i].body \in MalformedBodies)
       => /\ proc'[i].http = 200
          /\ UNCHANGED <<payments, profiles>>]_vars

\* C17: a well-formed webhook of a handled event type whose payment id matches
\* no Payment row of the receiver's gateway is answered with 200 in the step it
\* arrives in; the step writes no Payment or Profile row, creates no account,
\* sends no notification and invokes no provisioning.
C17_UnknownPaymentIgnored ==
  [][\A i \in Procs : \A p \in PayIds :
       ( /\ Arrives(i) /\ proc'[i].kind = "webhook" /\ proc'[i].pay = p
         /\ webhookRelevant(proc'[i].gateway, proc'[i].event)
         /\ ~(payments[p].exists /\ payments[p].gateway = proc'[i].gateway) )
       => /\ proc'[i].pc = "done" /\ proc'[i].http = 200
          /\ UNCHANGED <<payments, profiles, created, emails, provCount>>]_vars

\* C17 witness: a notification of a handled type for a charge that has no row
\* was answered with 200.
C17_Witness ==
  \E i \in Procs :
    /\ proc[i].kind = "webhook" /\ proc[i].pc = "done" /\ proc[i].http = 200
    /\ proc[i].pay \in PayIds /\ gw[proc[i].pay].exists
    /\ webhookRelevant(proc[i].gateway, proc[i].event)
    /\ ~proc[i].snap.exists /\ ~payments[proc[i].pay].exists

\* The errors that name a precondition the request does not meet.
Unmet(s, pl, m) ==
  (IF m = "pix" /\ ~s.pix_enabled THEN {"PIX nao esta habilitado"} ELSE {})
  \cup (IF m = "boleto" /\ ~s.boleto_enabled THEN {"Boleto nao esta habilitado"} ELSE {})
  \cup (IF m = "credit_card" /\ ~s.credit_card_enabled
        THEN {"Cartao de credito nao esta habilitado"} ELSE {})
  \cup (IF ~pl.exists \/ ~pl.is_active THEN {"Plano nao encontrado"} ELSE {})
  \cup (IF s.active_gateway = "none" THEN {"Gateway nao configurado"} ELSE {})

\* C18: a creation request that fails a precondition (plan missing or inactive,
\* method disabled, no gateway active) is answered in the step it arrives in
\* with an error naming an unmet precondition; no charge is created at a
\* gateway and no Payment row is inserted.
C18_ValidationFailsEarly ==
  [][\A i \in Procs :
       ( /\ Arrives(i) /\ proc'[i].kind = "create"
         /\ Unmet(settings, plan, proc'[i].method) # {} )
       => /\ proc'[i].pc = "done" /\ proc'[i].http = 400
          /\ proc'[i].error \in Unmet(settings, plan, proc'[i].method)
          /\ UNCHANGED <<gw, payments, provCount>>]_vars

\* C18 witness: a card payment was refused because cards are disabled, with
\* the plan active and a gateway configured.
C18_Witness ==
  \E i \in Procs :
    /\ proc[i].kind = "create" /\ proc[i].pc = "done" /\ proc[i].method = "credit_card"
    /\ proc[i].error = "Cartao de credito nao esta habilitado"
    /\ ~settings.credit_card_enabled /\ plan.exists /\ plan.is_active
    /\ settings.active_gateway \in Gateways
    /\ \A p \in PayIds : ~gw[p].exists /\ ~payments[p].exists

\* C19: once the creation request has responded, a charge that exists at the
\* gateway has its Payment row.
C19_ChargeHasRow ==
  \A p \in PayIds : (gw[p].exists /\ ~Creating(p)) => payments[p].exists

C21_CreatedPendingOrCardApproved ==
  [][\A p \in PayIds :
       (~payments[p].exists /\ payments'[p].exists)
       => \/ payments'[p].status = "pending"
          \/ payments'[p].status = "approved" /\ payments'[p].method = "credit_card"]_vars

\* The provisioning call of invocation i runs in this step for a payment
\* without client_id whose e-mail has no account.
ProvisionsNewAccount(i) ==
  /\ Provisions(i)
  /\ proc[i].snap.client_id = 0
  /\ ~profiles[proc[i].snap.email].exists

\* C22: when provisioning runs for a payment without client_id whose e-mail has
\* no account, and the account creation succeeds, the run creates one
\* authentication identity and the profile (plan_start_date today, plan_end_date
\* today + duration, active), links the payment to it and sends one welcome
\* notification.
C22_NewAccountProvisioned ==
  [][\A i \in Procs :
       LET e == proc[i].snap.email
           p == proc[i].pay
       IN (ProvisionsNewAccount(i) /\ proc'[i].provErr = "")
            => /\ created'[e] = created[e] + 1
               /\ profiles'[e].exists
               /\ profiles'[e].plan_start_date = now
               /\ profiles'[e].plan_end_date = now + plan.duration_days
               /\ profiles'[e].is_active
               /\ payments'[p].client_id = e
               /\ emails' = emails + 1]_vars

\* C22 witness: a receiver's provisioning run has created the account of a new
\* customer and linked the payment to it.
C22_Witness ==
  \E i \in Procs :
    /\ proc[i].kind = "webhook" /\ proc[i].pc = "done" /\ proc[i].didProv
    /\ proc[i].mkAccount /\ proc[i].mailed /\ proc[i].provErr = ""
    /\ profiles[proc[i].snap.email].exists
    /\ payments[proc[i].pay].client_id = proc[i].snap.email
    /\ created[proc[i].snap.email] = 1 /\ emails = 1

\* C23: when the account creation of a provisioning run fails (identity or
\* profile), the run leaves the payment's status and its null client_id as they
\* are and sends no welcome notification.
C23_FailedCreationLeavesUnlinked ==
  [][\A i \in Procs :
       LET p == proc[i].pay
       IN (ProvisionsNewAccount(i) /\ proc'[i].provErr # "")
            => /\ payments'[p].client_id = payments[p].client_id
               /\ payments'[p].status = payments[p].status
               /\ emails' = emails]_vars

\* C24: a payment's amount_cents and the days its approval grants are those of
\* the plan when the payment was created: a provisioning run that creates the
\* customer's account ends the plan the creation-time duration after today, and
\* no step changes a stored amount_cents, whatever plan edits came in between.
C24_PlanSnapshotGranted ==
  [][/\ \A i \in Procs :
          (ProvisionsNewAccount(i) /\ profiles'[proc[i].snap.email].exists)
            => profiles'[proc[i].snap.email].plan_end_date =
                 now + payments[proc[i].pay].duration0
     /\ \A p \in PayIds :
          payments[p].exists => payments'[p].amount_cents = payments[p].amount_cents]_vars

\* The native status terms the Mercado Pago and Asaas switches name.
MPNative ==
  {"approved", "pending", "in_process", "authorized", "rejected", "cancelled",
   "refunded", "charged_back"}

AsaasNative ==
  {"RECEIVED", "CONFIRMED", "PENDING", "AWAITING_RISK_ANALYSIS", "OVERDUE",
   "REFUNDED", "REFUND_REQUESTED"}

\* The fixed table: confirmed/received terms approved, pending/in-analysis terms
\* pending, declined/canceled terms rejected, overdue terms expired, refunded
\* terms refunded.
StatusTable(native) ==
  CASE native \in {"approved", "RECEIVED", "CONFIRMED"} -> "approved"
    [] native \in {"pending", "in_process", "authorized", "PENDING",
                   "AWAITING_RISK_ANALYSIS"} -> "pending"
    [] native \in {"rejected", "cancelled"} -> "rejected"
    [] native = "OVERDUE" -> "expired"
    [] OTHER -> "refunded"

\* C25: each native status of a gateway gets the same normalized status from
\* charge creation, the status poll and the webhook, the one of the fixed table.
C25_SameMappingOnEveryPath ==
  /\ \A n \in MPNative :
       /\ mapMPStatus(n) = StatusTable(n)
       /\ checkMercadoPagoMap(n) = StatusTable(n)
       /\ \A p \in PayIds : webhookMPStatus(n, payments[p].status) = StatusTable(n)
  /\ \A n \in AsaasNative :
       /\ mapAsaasStatus(n) = StatusTable(n)
       /\ checkAsaasMap(n) = StatusTable(n)

\* C26: a step of an invocation whose outbound gateway call failed in transport
\* (charge creation, the poll's status check, the Mercado Pago receiver's live
\* fetch) neither makes a stored status approved nor invokes provisioning.
C26_TransportFailureNeverApproves ==
  [][\A i \in Procs :
       (proc'[i].transport /\ proc'[i] # proc[i])
         => /\ \A p \in PayIds :
                 payments'[p].status = "approved" => payments[p].status = "approved"
            /\ provCount' = provCount
            /\ proc'[i].pc \notin {"cr_prov", "wh_prov"}]_vars

\* C26 witness: a poll whose status check failed in transport has responded
\* while the charge was paid at the gateway, and the row is still pending.
C26_Witness ==
  \E i \in Procs :
    /\ proc[i].kind = "poll" /\ proc[i].pc = "done" /\ proc[i].transport
    /\ gw[proc[i].pay].status = "approved"
    /\ payments[proc[i].pay].status = "pending"

\* What the row may show of a card: its last four digits and installment count.
LastFour(number) == [k \in 1..4 |-> number[Len(number) - 4 + k]]

Visible(card) ==
  <<LastFour(card.number), IF card.installments = 0 THEN 1 ELSE card.installments>>

\* C27: the inserted row holds no raw card number and depends on the card only
\* through the last four digits, the brand the gateway answered and the
\* installment count: the request of any other card with the same last four
\* digits and installments, answered the same by the gateway, stores the same row.
C27_RowHidesCard ==
  \A i \in Procs :
    (proc[i].kind = "create" /\ proc[i].wrote /\ proc[i].method = "credit_card")
      => LET row == payments[proc[i].pay]
         IN /\ Len(row.card_last_digits) < CardLen
            /\ \A other \in Cards :
                 (Visible(other) = Visible(proc[i].card)
                  /\ cardBrand(other.number) = row.card_brand)
                   => /\ cardLastDigits(other.number) = row.card_last_digits
                      /\ rowInstallments(other) = row.installments

\* C27 witness: the row of a card checkout is stored while another card with
\* the same last four digits and installments differs in number, CVV and expiry.
C27_Witness ==
  \E i \in Procs :
    /\ proc[i].kind = "create" /\ proc[i].wrote /\ proc[i].method = "credit_card"
    /\ payments[proc[i].pay].card_last_digits = LastFour(proc[i].card.number)
    /\ \E other \in Cards :
         /\ Visible(other) = Visible(proc[i].card)
         /\ cardBrand(other.number) = payments[proc[i].pay].card_brand
         /\ other.number # proc[i].card.number
         /\ other.cvv # proc[i].card.cvv
         /\ other.exp_month # proc[i].card.exp_month

\* C28: client_id is write-once: once a payment's client_id is set (at creation
\* or by provisioning), no step of a receiver, a poll or a provisioning run
\* changes or clears it.
C28_ClientIdWriteOnce ==
  [][\A p \in PayIds :
       (payments[p].exists /\ payments[p].client_id # 0)
         => payments'[p].client_id = payments[p].client_id]_vars

\* C28 witness: a provisioning run that had read the row before it was linked
\* has finished after another run linked it, and the payment is still linked.
C28_Witness ==
  \E i \in Procs :
    /\ proc[i].pc = "done" /\ proc[i].didProv /\ proc[i].snap.client_id = 0
    /\ provCount[proc[i].pay] > 1
    /\ payments[proc[i].pay].client_id # 0
    /\ payments[proc[i].pay].ver > 0

\* C29: a poll asks the gateway recorded on the payment's row: it sends the
\* row's external id to no other provider, and while the active gateway of the
\* settings differs from the row's gateway no step of a poll changes the row.
C29_PollAsksRowGateway ==
  [][\A i \in Procs :
       (proc'[i].kind = "poll" /\ proc'[i] # proc[i] /\ proc'[i].snap.exists)
         => /\ proc'[i].asked \in {"none", proc'[i].snap.gateway}
            /\ settings.active_gateway # proc'[i].snap.gateway => payments' = payments]_vars

\* The checkout page's success step for a card: "Pagamento Confirmado!".
CardConfirmedView(l) ==
  l.kind = "create" /\ l.step = "success" /\ l.method = "credit_card"

\* C30: the checkout page shows the card's payment-confirmed view only when the
\* creation response reports status approved.
C30_ConfirmedViewOnlyApproved ==
  \A i \in Procs : CardConfirmedView(proc[i]) => proc[i].cand = "approved"

====
